---- MODULE Spec2Model ----
(***************************************************************************)
(* Model of src/outputs/2122_D.cpp: the bounded-window lexicographic       *)
(* shortest-path search of solve(), and the test-case loop of main().      *)
(*                                                                         *)
(* One call of solve() is the state machine                                *)
(*     loop --Pop--> body --Stale | Pruned | Expand--> loop --Output--> ret *)
(* over the locals of solve(): the adjacency lists, min_t, min_w, the      *)
(* priority queue pq, the answer ans and the popped state cur.             *)
(***************************************************************************)
EXTENDS Integers, Sequences, FiniteSets

\* ------------------------------------------------------------------ bounds
\* One call of solve(): 1 <= n <= MaxN nodes and 0 <= m <= MaxM edges.
MaxN == 3
MaxM == 3
\* The inputs of the specifications that look at whole behaviours (LiveSpec)
\* or at several test cases (SpecMain): at most SmallN nodes, SmallM edges.
SmallN == 3
SmallM == 2
\* Simple graphs (no self-loop, no repeated edge), as the inputs of the
\* problem are: at most WideN nodes and WideM edges.
WideN == 4
WideM == 4
\* test2.cpp: 1 <= n <= SwapN, the 2n times drawn from 0..SwapA.
SwapN == 3
SwapA == 2
\* 2107_F2.cpp: 0 <= n <= HeapN, the values a[i] drawn from 0..HeapA.
HeapN == 4
HeapA == 3
\* main(): MaxT test cases.
MaxT == 2

\* ------------------------------------------------------- program constants
\* The sentinel 1e18 of line 9.  It is only ever compared, copied and
\* printed; it is represented by a value above every time the model reaches.
INF == 1000000000

\* The window constant of line 10.  The source compiles in 600; the model
\* scales it down so that the edge of the window lies inside the graphs the
\* bounds admit (a node of degree above C needs more than C edges).  Every
\* formula below reads it only through the name C.
C == 2

VARIABLES
    n,        \* node count read by solve()
    edges,    \* the m input pairs <<u, v>>, in the order read
    adj,      \* adj[i]: sequence of <<neighbour, edge_idx>>, edge_idx from 1
    deg,      \* deg[i] = size of node i's list
    min_t,    \* min_t[i]: least time node i was reached at, or INF
    min_w,    \* min_w[i][k]: least wait recorded for node i at time min_t[i]+k
    pq,       \* the frontier: the entries of the priority queue, oldest first
    ans,      \* <<ans.first, ans.second>>
    cur,      \* the state taken from the queue by lines 61-62
    pc,       \* "loop" (line 60), "body" (line 64), "ret" (solve() returned)
    out,      \* the pair the last call of solve() printed, <<>> while one runs
    tleft,    \* main's t: test cases still to run
    ran,      \* history: the calls of solve() that have returned
    tie,      \* how the build's heap orders entries that operator> leaves equal
    succ,     \* history: the successors generated by the last expansion
    logging,  \* history switch: whether trace is recorded
    trace,    \* history: the states popped by the current call of solve()
    hist,     \* history: the states the current call enqueued (enq) and those
              \* that passed its pop-time checks (passed)
    sw,       \* test2.cpp: the locals of one call of its solve()
    mh        \* 2107_F2.cpp: the locals of one call of its solve()

vars == <<n, edges, adj, deg, min_t, min_w, pq, ans, cur, pc, out, tleft, ran, tie,
          succ, logging, trace, hist, sw, mh>>

\* ------------------------------------------------------------------- State
\* struct State {total_time, wait_time, u} and its operator> (lines 13-24).
State(t, w, u) == [total_time |-> t, wait_time |-> w, u |-> u]

\* Variant: wait_time compared first.
GreaterWaitFirst(a, b) ==
    IF a.wait_time # b.wait_time
    THEN a.wait_time > b.wait_time
    ELSE a.total_time > b.total_time

Greater(a, b) ==
    IF a.total_time # b.total_time
    THEN a.total_time > b.total_time
    ELSE a.wait_time > b.wait_time

NoState == State(-1, -1, 0)

\* --------------------------------------------------------------- the queue
\* std::priority_queue<State, vector<State>, greater<State>>: top() is an
\* entry no other entry is smaller than.  Which of several equal entries it
\* is, the library's heap algorithm decides: a deterministic function of the
\* pushes and pops so far.  tie = "oldest" / "newest" are two such functions;
\* tie = "any" leaves the choice open and so covers every heap algorithm.
Ties == {"any", "oldest", "newest"}

\* Variant: a max-heap (greater<State> left out of the queue's type).
MaximalIdx(q) == {i \in 1..Len(q) : \A j \in 1..Len(q) : ~Greater(q[j], q[i])}

MinimalIdx(q) == {i \in 1..Len(q) : \A j \in 1..Len(q) : ~Greater(q[i], q[j])}

SetMin(S) == CHOOSE x \in S : \A y \in S : x <= y
SetMax(S) == CHOOSE x \in S : \A y \in S : x >= y

\* Variant: a top() whose choice among equal entries is not a function of the
\* queue.
TopChoicesUnstable(q, k) == MinimalIdx(q)

TopChoices(q, k) ==
    CASE k = "oldest" -> {SetMin(MinimalIdx(q))}
      [] k = "newest" -> {SetMax(MinimalIdx(q))}
      [] OTHER        -> MinimalIdx(q)

\* Variant: the entry is read but not removed.
PqPopKeeps(q, i) == q

\* pq.pop() of the entry top() returned.
PqPop(q, i) == [j \in 1..(Len(q) - 1) |-> IF j < i THEN q[j] ELSE q[j + 1]]

PqPush(q, s) == Append(q, s)

\* ------------------------------------------------------------- the graph
\* Lines 31-37: each pair is appended to both endpoints' lists, u's first.
RECURSIVE AdjInputOrder(_, _, _)
AdjInputOrder(nn, es, k) ==
    IF k = 0 THEN [i \in 1..nn |-> <<>>]
    ELSE LET a == AdjInputOrder(nn, es, k - 1)
             u == es[k][1]
             v == es[k][2]
             a1 == [a EXCEPT ![u] = Append(@, v)]
         IN  [a1 EXCEPT ![v] = Append(@, u)]

\* Variant: edge_idx numbered from 0.
BuildAdjFromZero(nn, es) ==
    LET a == AdjInputOrder(nn, es, Len(es))
    IN  [i \in 1..nn |-> [j \in 1..Len(a[i]) |-> <<a[i][j], j - 1>>]]

\* Lines 39-47: the lists again, each entry numbered from 1 in list order.
BuildAdj(nn, es) ==
    LET a == AdjInputOrder(nn, es, Len(es))
    IN  [i \in 1..nn |-> [j \in 1..Len(a[i]) |-> <<a[i][j], j>>]]

BuildDeg(nn, es) ==
    LET a == AdjInputOrder(nn, es, Len(es))
    IN  [i \in 1..nn |-> Len(a[i])]

\* Variant: the edge of the arrival time t + 1.
EdgeIdxToTakeShifted(t, d) == ((t + 1) % d) + 1

\* Line 94.
EdgeIdxToTake(t, d) == (t % d) + 1

\* Lines 95-101: the first entry of adj[u] numbered idx, or -1.
FindEdge(list, idx) ==
    LET hits == {j \in 1..Len(list) : list[j][2] = idx}
    IN  IF hits = {} THEN -1 ELSE list[SetMin(hits)][1]

\* Lines 93-103: the node the move action leads to, or -1 when there is none.
MoveTarget(a, d, u, t) ==
    IF d[u] > 0 THEN FindEdge(a[u], EdgeIdxToTake(t, d[u])) ELSE -1

\* -------------------------------------------------------------- the search
\* The tables and the queue a loop iteration works on, with the history of
\* the successors it generated.
Tables(mt, mw, q, sc) == [mt |-> mt, mw |-> mw, q |-> q, sc |-> sc]

Range(f) == {f[x] : x \in DOMAIN f}

\* The locals of a program that is not the one being run.
NotRun == [pc |-> "none"]

Hist(enq, passed) == [enq |-> enq, passed |-> passed]

Gen(kind, s, pushed) == [kind |-> kind, s |-> s, pushed |-> pushed]

\* Variant: a superseded entry is not recognised (line 68 checks the window
\* only).
IsStaleWindowOnly(mt, mw, s) ==
    \/ mt[s.u] = INF
    \/ s.total_time > mt[s.u] + C
    \/ s.total_time - mt[s.u] >= C

\* Variant: an entry whose wait count equals the recorded one is taken for
\* superseded as well (>= at line 68).
IsStaleOrEqual(mt, mw, s) ==
    \/ mt[s.u] = INF
    \/ s.total_time > mt[s.u] + C
    \/ LET dt == s.total_time - mt[s.u]
       IN  dt >= C \/ s.wait_time >= mw[s.u][dt]

\* Lines 64-70: the popped entry is outside the window or superseded.
IsStale(mt, mw, s) ==
    \/ mt[s.u] = INF
    \/ s.total_time > mt[s.u] + C
    \/ LET dt == s.total_time - mt[s.u]
       IN  dt >= C \/ s.wait_time > mw[s.u][dt]

\* Variant: the comparisons reversed.
BetterFlipped(t, w, a) == t > a[1] \/ (t = a[1] /\ w > a[2])

\* Line 73.
Better(t, w, a) == t < a[1] \/ (t = a[1] /\ w < a[2])

\* Variant: every popped node taken for the target.
IsTargetAny(u, nn) == TRUE

\* Line 72.
IsTarget(u, nn) == u = nn

\* Variant: every target state overwrites the answer (line 73 left out).
NewAnsLast(s, a, nn) ==
    IF IsTarget(s.u, nn) THEN <<s.total_time, s.wait_time>> ELSE a

\* Lines 72-76: the answer after the popped state was looked at.
NewAns(s, a, nn) ==
    IF IsTarget(s.u, nn) /\ Better(s.total_time, s.wait_time, a)
    THEN <<s.total_time, s.wait_time>>
    ELSE a

\* Variant: the early exit one unit of time late.
PastAnswerLate(t, a) == t > a[1] + 1

\* Variant: a state at the answer's time is past it too.
PastAnswerOrEqual(t, a) == t >= a[1]

\* Line 78.
PastAnswer(t, a) == t > a[1]

\* Variant: a wait not counted.
WaitSuccFree(s) == State(s.total_time + 1, s.wait_time, s.u)

\* Variant: a wait uncounted.
WaitSuccBack(s) == State(s.total_time + 1, s.wait_time - 1, s.u)

\* Variant: a wait counted twice.
WaitSuccDouble(s) == State(s.total_time + 1, s.wait_time + 2, s.u)

\* Lines 81-82.
WaitSucc(s) == State(s.total_time + 1, s.wait_time + 1, s.u)

\* Variant: a move taking two units of time.
MoveSuccSlow(s, v) == State(s.total_time + 2, s.wait_time, v)

\* Variant: a move counted as a wait.
MoveSuccWaits(s, v) == State(s.total_time + 1, s.wait_time + 1, v)

\* Lines 104-105.
MoveSucc(s, v) == State(s.total_time + 1, s.wait_time, v)

\* Variant: the window of the wait option one offset short.
WaitStepShort(tb, s) ==
    LET ws == WaitSucc(s)
        dt == s.total_time - tb.mt[s.u]
    IN  IF ws.total_time < tb.mt[s.u] + C - 1
           /\ ws.wait_time < tb.mw[s.u][dt + 1]
        THEN Tables(tb.mt,
                    [tb.mw EXCEPT ![s.u][dt + 1] = ws.wait_time],
                    PqPush(tb.q, ws),
                    Append(tb.sc, Gen("wait", ws, TRUE)))
        ELSE [tb EXCEPT !.sc = Append(@, Gen("wait", ws, FALSE))]

\* Variant: the window of the wait option is not checked (a wait successor
\* past the window is enqueued, with no entry of min_w to record it in).
WaitStepNoWindow(tb, s) ==
    LET ws == WaitSucc(s)
        dt == s.total_time - tb.mt[s.u]
    IN  IF ws.total_time < tb.mt[s.u] + C
        THEN IF ws.wait_time < tb.mw[s.u][dt + 1]
             THEN Tables(tb.mt,
                         [tb.mw EXCEPT ![s.u][dt + 1] = ws.wait_time],
                         PqPush(tb.q, ws),
                         Append(tb.sc, Gen("wait", ws, TRUE)))
             ELSE [tb EXCEPT !.sc = Append(@, Gen("wait", ws, FALSE))]
        ELSE Tables(tb.mt, tb.mw, PqPush(tb.q, ws),
                    Append(tb.sc, Gen("wait", ws, TRUE)))

\* Lines 80-90: the wait option.
WaitStep(tb, s) ==
    LET ws == WaitSucc(s)
        dt == s.total_time - tb.mt[s.u]
    IN  IF ws.total_time < tb.mt[s.u] + C
           /\ ws.wait_time < tb.mw[s.u][dt + 1]
        THEN Tables(tb.mt,
                    [tb.mw EXCEPT ![s.u][dt + 1] = ws.wait_time],
                    PqPush(tb.q, ws),
                    Append(tb.sc, Gen("wait", ws, TRUE)))
        ELSE [tb EXCEPT !.sc = Append(@, Gen("wait", ws, FALSE))]

\* Variant: a move successor with an equal wait count is kept too.
MoveStepLoose(tb, s, a, d) ==
    LET v == MoveTarget(a, d, s.u, s.total_time)
    IN  IF v = -1 THEN tb
        ELSE LET ms == MoveSucc(s, v)
             IN  IF ms.total_time < tb.mt[v]
                 THEN Tables([tb.mt EXCEPT ![v] = ms.total_time],
                             [tb.mw EXCEPT ![v][0] = ms.wait_time],
                             PqPush(tb.q, ms),
                             Append(tb.sc, Gen("move", ms, TRUE)))
                 ELSE LET dt_new == ms.total_time - tb.mt[v]
                      IN  IF dt_new < C /\ ms.wait_time <= tb.mw[v][dt_new]
                          THEN Tables(tb.mt,
                                      [tb.mw EXCEPT ![v][dt_new] = ms.wait_time],
                                      PqPush(tb.q, ms),
                                      Append(tb.sc, Gen("move", ms, TRUE)))
                          ELSE [tb EXCEPT !.sc = Append(@, Gen("move", ms, FALSE))]

\* Variant: only the first arrival at a node is kept (lines 111-119 left
\* out).
MoveStepFirstOnly(tb, s, a, d) ==
    LET v == MoveTarget(a, d, s.u, s.total_time)
    IN  IF v = -1 THEN tb
        ELSE LET ms == MoveSucc(s, v)
             IN  IF ms.total_time < tb.mt[v]
                 THEN Tables([tb.mt EXCEPT ![v] = ms.total_time],
                             [tb.mw EXCEPT ![v][0] = ms.wait_time],
                             PqPush(tb.q, ms),
                             Append(tb.sc, Gen("move", ms, TRUE)))
                 ELSE [tb EXCEPT !.sc = Append(@, Gen("move", ms, FALSE))]

\* Variant: a first arrival does not record its wait count (line 109 left
\* out).
MoveStepNoRecord(tb, s, a, d) ==
    LET v == MoveTarget(a, d, s.u, s.total_time)
    IN  IF v = -1 THEN tb
        ELSE LET ms == MoveSucc(s, v)
             IN  IF ms.total_time < tb.mt[v]
                 THEN Tables([tb.mt EXCEPT ![v] = ms.total_time],
                             tb.mw,
                             PqPush(tb.q, ms),
                             Append(tb.sc, Gen("move", ms, TRUE)))
                 ELSE LET dt_new == ms.total_time - tb.mt[v]
                      IN  IF dt_new < C /\ ms.wait_time < tb.mw[v][dt_new]
                          THEN Tables(tb.mt,
                                      [tb.mw EXCEPT ![v][dt_new] = ms.wait_time],
                                      PqPush(tb.q, ms),
                                      Append(tb.sc, Gen("move", ms, TRUE)))
                          ELSE [tb EXCEPT !.sc = Append(@, Gen("move", ms, FALSE))]

\* Lines 92-121: the move option, on the tables the wait option left.
MoveStep(tb, s, a, d) ==
    LET v == MoveTarget(a, d, s.u, s.total_time)
    IN  IF v = -1 THEN tb
        ELSE LET ms == MoveSucc(s, v)
             IN  IF ms.total_time < tb.mt[v]
                 THEN Tables([tb.mt EXCEPT ![v] = ms.total_time],
                             [tb.mw EXCEPT ![v][0] = ms.wait_time],
                             PqPush(tb.q, ms),
                             Append(tb.sc, Gen("move", ms, TRUE)))
                 ELSE LET dt_new == ms.total_time - tb.mt[v]
                      IN  IF dt_new < C /\ ms.wait_time < tb.mw[v][dt_new]
                          THEN Tables(tb.mt,
                                      [tb.mw EXCEPT ![v][dt_new] = ms.wait_time],
                                      PqPush(tb.q, ms),
                                      Append(tb.sc, Gen("move", ms, TRUE)))
                          ELSE [tb EXCEPT !.sc = Append(@, Gen("move", ms, FALSE))]

\* Lines 80-121.
ExpandStep(tb, s, a, d) == MoveStep(WaitStep(tb, s), s, a, d)

\* ------------------------------------------------------ entering solve()
\* Variant: ans kept across calls (a file-scope answer never reset).
LocalsKeepAns(nn, es, prev) ==
    [adj   |-> BuildAdj(nn, es),
     deg   |-> BuildDeg(nn, es),
     min_t |-> [i \in 1..nn |-> IF i = 1 THEN 0 ELSE INF],
     min_w |-> [i \in 1..nn |-> [k \in 0..(C - 1) |->
                  IF i = 1 /\ k = 0 THEN 0 ELSE INF]],
     pq    |-> <<State(0, 0, 1)>>,
     ans   |-> IF prev = <<>> THEN <<INF, INF>> ELSE prev]

\* Lines 27-58: the locals of a call of solve() once its input is read.  prev
\* is the answer of the call before (<<>> when there is none), which solve()
\* never reads: every local is constructed anew.
Locals(nn, es, prev) ==
    [adj   |-> BuildAdj(nn, es),
     deg   |-> BuildDeg(nn, es),
     min_t |-> [i \in 1..nn |-> IF i = 1 THEN 0 ELSE INF],
     min_w |-> [i \in 1..nn |-> [k \in 0..(C - 1) |->
                  IF i = 1 /\ k = 0 THEN 0 ELSE INF]],
     pq    |-> <<State(0, 0, 1)>>,
     ans   |-> <<INF, INF>>]

\* The edge lists of an input: at most mm pairs of nodes of 1..nn.
EdgeSeqs(nn, mm) == UNION {[1..k -> (1..nn) \X (1..nn)] : k \in 0..mm}

\* The edge lists of a simple graph: at most mm distinct pairs u < v.
SimpleEdgeSeqs(nn, mm) ==
    LET pairs == {e \in (1..nn) \X (1..nn) : e[1] < e[2]}
    IN  {es \in UNION {[1..k -> pairs] : k \in 0..mm} :
            \A i \in DOMAIN es : \A j \in DOMAIN es : es[i] = es[j] => i = j}

\* ----------------------------------------------------------------- actions
\* Lines 39-58 done on the input read; main read t = 1.
SolveEntry ==
    /\ adj = Locals(n, edges, <<>>).adj
    /\ deg = Locals(n, edges, <<>>).deg
    /\ min_t = Locals(n, edges, <<>>).min_t
    /\ min_w = Locals(n, edges, <<>>).min_w
    /\ pq = Locals(n, edges, <<>>).pq
    /\ ans = Locals(n, edges, <<>>).ans
    /\ cur = NoState
    /\ pc = "loop"
    /\ out = <<>>
    /\ tleft = 0
    /\ ran = 0
    /\ tie = "any"
    /\ succ = <<>>
    /\ logging = FALSE
    /\ trace = <<>>
    /\ hist = Hist(Range(pq), {})
    /\ sw = NotRun
    /\ mh = NotRun

\* One call of solve(), its input of at most maxn nodes and maxm edges read
\* and lines 27-58 done.
InitSolve(maxn, maxm) ==
    /\ n \in 1..maxn
    /\ edges \in EdgeSeqs(n, maxm)
    /\ SolveEntry

Init == InitSolve(MaxN, MaxM)

InitSmall == InitSolve(SmallN, SmallM)

\* One call of solve() on a simple graph.
InitSimple ==
    /\ n \in 1..WideN
    /\ edges \in SimpleEdgeSeqs(n, WideM)
    /\ SolveEntry

\* main() after line 131 read t = MaxT, before the first call of solve().
InitMain ==
    /\ n = 0
    /\ edges = <<>>
    /\ adj = <<>>
    /\ deg = <<>>
    /\ min_t = <<>>
    /\ min_w = <<>>
    /\ pq = <<>>
    /\ ans = <<>>
    /\ cur = NoState
    /\ pc = "ret"
    /\ out = <<>>
    /\ tleft = MaxT
    /\ ran = 0
    /\ tie \in Ties
    /\ succ = <<>>
    /\ logging = TRUE
    /\ trace = <<>>
    /\ hist = Hist({}, {})
    /\ sw = NotRun
    /\ mh = NotRun

\* Lines 132-133 and 27-58: the next test case is read and solve() set up.
Call ==
    /\ pc = "ret"
    /\ tleft > 0
    /\ tleft' = tleft - 1
    /\ \E nn \in 1..SmallN : \E es \in EdgeSeqs(nn, SmallM) :
         LET l == Locals(nn, es, out)
         IN  /\ n' = nn
             /\ edges' = es
             /\ adj' = l.adj
             /\ deg' = l.deg
             /\ min_t' = l.min_t
             /\ min_w' = l.min_w
             /\ pq' = l.pq
             /\ ans' = l.ans
             /\ hist' = Hist(Range(l.pq), {})
    /\ cur' = NoState
    /\ pc' = "loop"
    /\ succ' = <<>>
    /\ trace' = <<>>
    /\ out' = <<>>
    /\ UNCHANGED <<ran, tie, logging, sw, mh>>

\* Lines 60-62: the loop condition holds, top() is read and popped.
Pop ==
    /\ pc = "loop"
    /\ pq # <<>>
    /\ \E i \in TopChoices(pq, tie) :
         /\ cur' = pq[i]
         /\ pq' = PqPop(pq, i)
         /\ trace' = IF logging THEN Append(trace, pq[i]) ELSE trace
    /\ pc' = "body"
    /\ succ' = <<>>
    /\ UNCHANGED <<n, edges, adj, deg, min_t, min_w, ans, out, tleft, ran, tie,
                   logging, hist, sw, mh>>

\* Lines 64-70: continue.
Stale ==
    /\ pc = "body"
    /\ IsStale(min_t, min_w, cur)
    /\ pc' = "loop"
    /\ UNCHANGED <<n, edges, adj, deg, min_t, min_w, pq, ans, cur, out, tleft,
                   ran, tie, succ, logging, trace, hist, sw, mh>>

\* Lines 72-78: the answer is updated and the state is past it: continue.
Pruned ==
    /\ pc = "body"
    /\ ~IsStale(min_t, min_w, cur)
    /\ ans' = NewAns(cur, ans, n)
    /\ PastAnswer(cur.total_time, ans')
    /\ hist' = Hist(hist.enq, hist.passed \cup {cur})
    /\ pc' = "loop"
    /\ UNCHANGED <<n, edges, adj, deg, min_t, min_w, pq, cur, out, tleft, ran,
                   tie, succ, logging, trace, sw, mh>>

\* Lines 72-121: the answer is updated and the state is expanded.
Expand ==
    /\ pc = "body"
    /\ ~IsStale(min_t, min_w, cur)
    /\ ans' = NewAns(cur, ans, n)
    /\ ~PastAnswer(cur.total_time, ans')
    /\ LET tb == ExpandStep(Tables(min_t, min_w, pq, <<>>), cur, adj, deg)
       IN  /\ min_t' = tb.mt
           /\ min_w' = tb.mw
           /\ pq' = tb.q
           /\ succ' = tb.sc
           /\ hist' = Hist(hist.enq \cup {tb.sc[i].s : i \in {j \in 1..Len(tb.sc) : tb.sc[j].pushed}},
                           hist.passed \cup {cur})
    /\ pc' = "loop"
    /\ UNCHANGED <<n, edges, adj, deg, cur, out, tleft, ran, tie, logging, trace,
                   sw, mh>>

\* solve() is at line 124: the loop has ended and ans is what it prints.
Finished == pc = "loop" /\ pq = <<>>

\* Lines 60 and 124-125: the queue is empty, the answer is printed, solve()
\* returns and its locals are gone.
Output ==
    /\ Finished
    /\ out' = ans
    /\ pc' = "ret"
    /\ n' = 0
    /\ edges' = <<>>
    /\ adj' = <<>>
    /\ deg' = <<>>
    /\ min_t' = <<>>
    /\ min_w' = <<>>
    /\ ans' = <<>>
    /\ cur' = NoState
    /\ succ' = <<>>
    /\ trace' = <<>>
    /\ hist' = Hist({}, {})
    /\ ran' = ran + 1
    /\ UNCHANGED <<pq, tleft, tie, logging, sw, mh>>

Next == Pop \/ Stale \/ Pruned \/ Expand \/ Output

Spec == Init /\ [][Next]_vars

\* The loop of solve() is sequential code: it takes its next step.
LiveSpec == InitSmall /\ [][Next]_vars /\ WF_vars(Next)

SpecSimple == InitSimple /\ [][Next]_vars

NextMain == Call \/ Pop \/ Stale \/ Pruned \/ Expand \/ Output

SpecMain == InitMain /\ [][NextMain]_vars

\* ------------------------------------------------------------ reference
\* What the claims compare solve() with, computed from the input alone.

\* Node u's incident edges in input order, each as the other endpoint; a
\* self-loop is incident to u twice.
RECURSIVE Incident(_, _)
Incident(es, u) ==
    IF es = <<>> THEN <<>>
    ELSE LET e == Head(es)
             here == (IF e[1] = u THEN <<e[2]>> ELSE <<>>)
                     \o (IF e[2] = u THEN <<e[1]>> ELSE <<>>)
         IN  here \o Incident(Tail(es), u)

\* The neighbour the move action selects at node u at time t: none when u
\* has no edge.
Selected(es, u, t) ==
    LET l == Incident(es, u)
    IN  IF Len(l) = 0 THEN {} ELSE {l[(t % Len(l)) + 1]}

\* The nodes joined to node 1 by a path of edges.
RECURSIVE Component(_, _)
Component(es, S) ==
    LET T == S \cup {e[2] : e \in {x \in {es[i] : i \in 1..Len(es)} : x[1] \in S}}
               \cup {e[1] : e \in {x \in {es[i] : i \in 1..Len(es)} : x[2] \in S}}
    IN  IF T = S THEN S ELSE Component(es, T)

Connected == n \in Component(edges, {1})

\* R is the set of <<u, w>> with w the least number of waits of a walk that
\* is at node u at time t; WalkStep gives the same for time t + 1.
WalkStep(es, t, R) ==
    LET cand == {<<p[1], p[2] + 1>> : p \in R}
                \cup UNION {{<<v, p[2]>> : v \in Selected(es, p[1], t)} : p \in R}
    IN  {p \in cand : \A q \in cand : q[1] = p[1] => p[2] <= q[2]}

\* No walk needs longer: a path has fewer than nn edges and each of its
\* nodes waits less than its degree, which is at most 2 * Len(es).
Horizon(es, nn) == nn * (2 * Len(es) + 1)

\* The lexicographically least <<time of first arrival at nn, waits>> over
\* all walks of wait and move actions from node 1 at time 0.
RECURSIVE OptimumFrom(_, _, _, _)
OptimumFrom(es, nn, t, R) ==
    IF \E p \in R : p[1] = nn
    THEN <<t, (CHOOSE p \in R : p[1] = nn)[2]>>
    ELSE IF t >= Horizon(es, nn) THEN <<INF, INF>>
    ELSE OptimumFrom(es, nn, t + 1, WalkStep(es, t, R))

Optimum(es, nn) == OptimumFrom(es, nn, 0, {<<1, 0>>})

\* ------------------------------------------------------------------ claims
\* C1: whenever node n is joined to node 1, the pair solve() prints is the
\* lexicographic minimum of (time of first arrival at n, number of waits)
\* over all walks of wait and move actions from node 1 at time 0.
C1_PrintsLexMin == (Finished /\ Connected) => ans = Optimum(edges, n)

\* C2: when the source is the target (n = 1), whatever the edges (none,
\* self-loops, repeated edges), solve() prints (0, 0).
C2_SourceIsTarget == (Finished /\ n = 1) => ans = <<0, 0>>

C2_Witness == Finished /\ n = 1 /\ Len(edges) >= 2 /\ ans = <<0, 0>>

Sentinel == <<INF, INF>>

Running == pc # "ret"

\* C3: when no path of edges joins node 1 to node n, the answer is never
\* changed from (INF, INF), the search ends, and (INF, INF) is what solve()
\* prints.
C3_UnreachableSentinel ==
    /\ []((Running /\ ~Connected) => ans = Sentinel)
    /\ ((Running /\ ~Connected) ~> (Finished /\ ans = Sentinel))

C3_Witness ==
    /\ Finished
    /\ ~Connected
    /\ ans = Sentinel
    /\ \E u \in 2..n : min_t[u] < INF

\* The last loop iteration expanded cur: succ holds what it generated.
Expanded == pc = "loop" /\ succ # <<>>

MoveGens == {i \in 1..Len(succ) : succ[i].kind = "move"}

\* C4: the move action of an expanded state (u, t) leads to exactly one
\* node, the other endpoint of entry number t mod deg(u) (from 0) of u's
\* incident edges in input order, one tick later; a node without edges
\* has no move successor.
C4_MoveTakesSelectedEdge ==
    Expanded =>
        /\ Cardinality(MoveGens) = Cardinality(Selected(edges, cur.u, cur.total_time))
        /\ \A i \in MoveGens :
              /\ succ[i].s.u \in Selected(edges, cur.u, cur.total_time)
              /\ succ[i].s.total_time = cur.total_time + 1
        /\ deg[cur.u] = Len(Incident(edges, cur.u))

C4_Witness ==
    /\ Expanded
    /\ deg[cur.u] >= 3
    /\ cur.total_time % deg[cur.u] = 1
    /\ \E i \in MoveGens :
          /\ succ[i].s.u = Incident(edges, cur.u)[2]
          /\ succ[i].s.u # Incident(edges, cur.u)[1]
          /\ succ[i].s.u # Incident(edges, cur.u)[3]

FirstEdgeToTarget ==
    /\ n # 1
    /\ Incident(edges, 1) # <<>>
    /\ Incident(edges, 1)[1] = n

\* C5: when n # 1 and the first entry of node 1's edge list leads to node
\* n, solve() prints (1, 0).
C5_DirectMove == (Finished /\ FirstEdgeToTarget) => ans = <<1, 0>>

C5_Witness == Finished /\ FirstEdgeToTarget /\ Len(edges) >= 2 /\ ans = <<1, 0>>

Triangle == n = 3 /\ edges = <<<<1, 2>>, <<2, 3>>, <<1, 3>>>>

\* C6: for the triangle read as (1,2), (2,3), (1,3) with target 3, solve()
\* prints (2, 0).
C6_TriangleViaTwo == (Finished /\ Triangle) => ans = <<2, 0>>

C6_Witness == Finished /\ Triangle /\ ans = <<2, 0>>

\* C7: on every input the search ends: the frontier becomes empty.
C7_Terminates == <>Finished

C7_Witness ==
    /\ Finished
    /\ ans = Sentinel
    /\ \E u \in 1..n : deg[u] = 0
    /\ \E i \in 1..Len(edges) : edges[i][1] = edges[i][2] /\ edges[i][1] = 1
    /\ \E i \in 1..Len(edges) : edges[i][1] # edges[i][2]

WaitWithinTime(s) == 0 <= s.wait_time /\ s.wait_time <= s.total_time

\* C8: every state in the frontier and every state popped from it has
\* 0 <= wait_time <= total_time, and every finite min_w[u][k] is at most
\* min_t[u] + k.
C8_WaitAtMostTime ==
    /\ \A i \in 1..Len(pq) : WaitWithinTime(pq[i])
    /\ cur # NoState => WaitWithinTime(cur)
    /\ \A u \in DOMAIN min_w : \A k \in DOMAIN min_w[u] :
          min_w[u][k] < INF => min_w[u][k] <= min_t[u] + k

C8_Witness ==
    /\ \E i \in 1..Len(pq) : pq[i].wait_time = pq[i].total_time /\ pq[i].total_time > 0
    /\ cur # NoState
    /\ \E u \in DOMAIN min_w : u # 1 /\ min_w[u][1] < INF /\ min_w[u][1] > 0

\* ------------------------------------------------- the reference run
\* solve() run to the end of its loop on fresh locals, as one function of
\* the input and of the build's tie order k: its pops and its answer.
RECURSIVE RunLoop(_, _, _, _, _)
RunLoop(r, ad, dg, nn, k) ==
    IF r.q = <<>> THEN r
    ELSE LET i  == CHOOSE j \in TopChoices(r.q, k) : TRUE
             s  == r.q[i]
             q1 == PqPop(r.q, i)
             t1 == Append(r.tr, s)
         IN  IF IsStale(r.mt, r.mw, s)
             THEN RunLoop([r EXCEPT !.q = q1, !.tr = t1], ad, dg, nn, k)
             ELSE LET a1 == NewAns(s, r.a, nn)
                  IN  IF PastAnswer(s.total_time, a1)
                      THEN RunLoop([r EXCEPT !.q = q1, !.tr = t1, !.a = a1],
                                   ad, dg, nn, k)
                      ELSE LET tb == ExpandStep(Tables(r.mt, r.mw, q1, <<>>), s, ad, dg)
                           IN  RunLoop([mt |-> tb.mt, mw |-> tb.mw, q |-> tb.q,
                                        a |-> a1, tr |-> t1], ad, dg, nn, k)

FirstRun(nn, es, k) ==
    LET l == Locals(nn, es, <<>>)
    IN  RunLoop([mt |-> l.min_t, mw |-> l.min_w, q |-> l.pq, a |-> l.ans,
                 tr |-> <<>>], l.adj, l.deg, nn, k)

\* Two popped states that operator> leaves equal and that differ in node.
TiedPops ==
    \E i, j \in 1..Len(trace) :
        /\ trace[i].u # trace[j].u
        /\ trace[i].total_time = trace[j].total_time
        /\ trace[i].wait_time = trace[j].wait_time

Entered == pc = "loop" /\ cur = NoState

\* C10: what a test case prints depends on its input alone.  Whatever test
\* cases ran before it, solve() starts from a graph built from this input,
\* min_t and min_w unset but for node 1, a frontier of (0, 0, 1) alone and the
\* answer (INF, INF); and it prints what it prints when run first.
C10_FreshPerTestCase ==
    /\ Entered =>
          /\ \A u \in 1..n :
                /\ deg[u] = Len(Incident(edges, u))
                /\ \A j \in 1..deg[u] : adj[u][j] = <<Incident(edges, u)[j], j>>
                /\ min_t[u] = IF u = 1 THEN 0 ELSE INF
                /\ \A k \in 0..(C - 1) :
                      min_w[u][k] = IF u = 1 /\ k = 0 THEN 0 ELSE INF
          /\ DOMAIN adj = 1..n /\ DOMAIN min_t = 1..n /\ DOMAIN min_w = 1..n
          /\ pq = <<State(0, 0, 1)>>
          /\ ans = Sentinel
    /\ Finished => ans = FirstRun(n, edges, IF tie = "any" THEN "oldest" ELSE tie).a

C10_Witness ==
    /\ Finished
    /\ ran >= 1
    /\ n >= 2
    /\ ans # Sentinel
    /\ ans # <<1, 0>>

WaitGens == {i \in 1..Len(succ) : succ[i].kind = "wait"}

\* C11: for an expanded state, waiting once and then moving gives a state
\* whose total_time and wait_time are each at least those of the state that
\* moving at once gives.
C11_WaitThenMoveNotLess ==
    Expanded =>
        \A i \in WaitGens : \A j \in MoveGens : \A v \in 1..n :
            LET later == MoveSucc(succ[i].s, v)
            IN  /\ later.total_time >= succ[j].s.total_time
                /\ later.wait_time >= succ[j].s.wait_time

C11_Witness ==
    /\ Expanded
    /\ \E i \in WaitGens : \E j \in MoveGens :
          /\ succ[i].pushed
          /\ succ[j].pushed
          /\ MoveTarget(adj, deg, cur.u, cur.total_time + 1) # succ[j].s.u

\* (total_time, wait_time) of a before that of b, lexicographically.
LexBefore(a, b) ==
    \/ a.total_time < b.total_time
    \/ a.total_time = b.total_time /\ a.wait_time < b.wait_time

\* C12: the states are popped in non-decreasing lexicographic order of
\* (total_time, wait_time): no pop comes lexicographically before the pop
\* that preceded it.
C12_PopsNonDecreasing ==
    [][(pc = "loop" /\ pc' = "body" /\ cur # NoState) => ~LexBefore(cur', cur)]_vars

C12_Witness ==
    /\ pc = "body"
    /\ cur.total_time >= 2
    /\ cur.wait_time >= 1
    /\ \E i \in 1..Len(pq) : LexBefore(cur, pq[i])

\* The step that expands the popped state.
ExpandTaken == pc = "body" /\ pc' = "loop" /\ succ' # <<>>

\* Offset of state s above the first arrival mt records for its node.
Slot(mt, s) == s.total_time - mt[s.u]

InWindow(mt, s) == mt[s.u] # INF /\ Slot(mt, s) \in 0..(C - 1)

IsPushed(g) == g.pushed

\* The states an expansion enqueued, in order.
PushedOf(sc) ==
    LET p == SelectSeq(sc, IsPushed) IN [i \in 1..Len(p) |-> p[i].s]

\* The wait count recorded for the slot of successor i before it was looked
\* at: what an earlier successor of the same expansion wrote there, else the
\* table before the expansion.
RecordedBefore(i) ==
    LET g == succ'[i].s
        earlier == {j \in 1..(i - 1) : /\ succ'[j].pushed
                                       /\ succ'[j].s.u = g.u
                                       /\ succ'[j].s.total_time = g.total_time}
    IN  IF earlier # {}
        THEN succ'[SetMax(earlier)].s.wait_time
        ELSE min_w[g.u][Slot(min_t', g)]

\* C13: a successor is enqueued only if its wait count is strictly smaller
\* than the one recorded before for its node and offset (the offset taken
\* against min_t after this successor's update); a successor whose wait count
\* is equal or larger is not enqueued, and the tables and the frontier change
\* only by the enqueued successors.
C13_EnqueuedOnlyIfSmaller ==
    [][ExpandTaken =>
        /\ \A i \in 1..Len(succ') :
              LET g == succ'[i]
              IN  /\ g.pushed => /\ InWindow(min_t', g.s)
                                 /\ g.s.wait_time < RecordedBefore(i)
                  /\ (InWindow(min_t', g.s)
                      /\ g.s.wait_time >= RecordedBefore(i)) => ~g.pushed
        /\ pq' = pq \o PushedOf(succ')
        /\ \A v \in 1..n :
              /\ min_t'[v] # min_t[v] =>
                    \E i \in 1..Len(succ') : /\ succ'[i].pushed
                                             /\ succ'[i].s.u = v
              /\ \A k \in 0..(C - 1) :
                    min_w'[v][k] # min_w[v][k] =>
                        \E i \in 1..Len(succ') :
                            /\ succ'[i].pushed
                            /\ succ'[i].s.u = v
                            /\ Slot(min_t', succ'[i].s) = k
                            /\ succ'[i].s.wait_time = min_w'[v][k]
       ]_vars

C13_Witness ==
    /\ Expanded
    /\ \E i \in 1..Len(succ) : \E j \in 1..Len(succ) :
          /\ ~succ[i].pushed
          /\ InWindow(min_t, succ[i].s)
          /\ succ[i].s.wait_time = min_w[succ[i].s.u][Slot(min_t, succ[i].s)]
          /\ succ[j].pushed

\* C14: every state in the frontier, the state just popped and every
\* successor just enqueued lies at an offset 0 <= total_time - min_t[node] < C
\* above the first arrival recorded for its node, so that min_w is only read
\* and written inside [0, C); a successor at an offset of C or more is never
\* enqueued.
C14_OffsetsInWindow ==
    /\ \A i \in 1..Len(pq) : InWindow(min_t, pq[i])
    /\ pc = "body" => InWindow(min_t, cur)
    /\ \A i \in 1..Len(succ) :
          /\ succ[i].pushed => InWindow(min_t, succ[i].s)
          /\ Slot(min_t, succ[i].s) >= C => ~succ[i].pushed

C14_Witness ==
    /\ Expanded
    /\ \E i \in 1..Len(succ) : /\ Slot(min_t, succ[i].s) >= C
                               /\ ~succ[i].pushed
    /\ \E i \in 1..Len(pq) : Slot(min_t, pq[i]) = C - 1

\* The step that follows a pop: lines 64-121 for the popped state.
BodyTaken == pc = "body" /\ pc' = "loop"

\* C15: a popped state whose total_time is above the time of the best answer
\* (as it stands after the state's own answer update) is not expanded: it
\* generates no successor and changes neither table nor the frontier; a
\* popped state that passed the pop-time checks and whose total_time is at
\* most that time, the target state itself included, is expanded.
C15_EarlyExit ==
    [][BodyTaken =>
        /\ cur.total_time > ans'[1] =>
              /\ succ' = <<>>
              /\ UNCHANGED <<min_t, min_w, pq>>
        /\ (InWindow(min_t, cur)
            /\ cur.wait_time <= min_w[cur.u][Slot(min_t, cur)]
            /\ cur.total_time <= ans'[1]) =>
              /\ succ' # <<>>
              /\ succ'[1].s = WaitSucc(cur)
       ]_vars

\* A state past the answer was dropped, after the target itself was expanded.
C15_Witness ==
    /\ pc = "loop"
    /\ cur # NoState
    /\ succ = <<>>
    /\ ans # Sentinel
    /\ InWindow(min_t, cur)
    /\ cur.wait_time <= min_w[cur.u][Slot(min_t, cur)]
    /\ cur.total_time = ans[1] + 1
    /\ min_w[n][C - 1] = ans[2] + 1

\* The frontier q1 is q0 with one entry taken out.
OneRemoved(q0, q1) == \E i \in 1..Len(q0) : q1 = PqPop(q0, i)

\* The frontier q1 is q0 with entries added at its end.
Extended(q0, q1) == Len(q1) >= Len(q0) /\ SubSeq(q1, 1, Len(q0)) = q0

\* C16: a popped entry whose wait count is strictly greater than the one
\* min_w records for its node and offset is discarded: the answer, the tables
\* and the frontier stay as they are and no successor is generated; and an
\* entry leaves the frontier only by being popped.
C16_StaleDiscarded ==
    [][/\ (BodyTaken
           /\ InWindow(min_t, cur)
           /\ cur.wait_time > min_w[cur.u][Slot(min_t, cur)]) =>
              /\ succ' = <<>>
              /\ UNCHANGED <<ans, min_t, min_w, pq>>
       /\ (pc # "ret" /\ pc' # "ret") =>
              IF pc = "loop" THEN OneRemoved(pq, pq') /\ cur' \in Range(pq)
                             ELSE Extended(pq, pq')
      ]_vars

C16_Witness ==
    /\ pc = "loop"
    /\ cur # NoState
    /\ succ = <<>>
    /\ InWindow(min_t, cur)
    /\ cur.wait_time > min_w[cur.u][Slot(min_t, cur)]
    /\ cur.u = n
    /\ ans # <<cur.total_time, cur.wait_time>>

\* C17: an expansion generates at most two successors: the wait successor
\* (u, t + 1, w + 1) and, when deg(u) > 0, the move successor (v, t + 1, w)
\* along the edge selected at time t; with deg(u) = 0 the wait successor
\* alone.  Nothing else enters the frontier.
C17_AtMostTwoSuccessors ==
    [][ExpandTaken =>
        LET t == cur.total_time
            w == cur.wait_time
            u == cur.u
        IN  /\ succ'[1] = Gen("wait", State(t + 1, w + 1, u), succ'[1].pushed)
            /\ IF deg[u] > 0
               THEN /\ Len(succ') = 2
                    /\ \E v \in Selected(edges, u, t) :
                          succ'[2] = Gen("move", State(t + 1, w, v), succ'[2].pushed)
               ELSE Len(succ') = 1
            /\ Extended(pq, pq')
            /\ Len(pq') <= Len(pq) + 2
            /\ \A i \in (Len(pq) + 1)..Len(pq') :
                  \E j \in 1..Len(succ') : succ'[j].pushed /\ pq'[i] = succ'[j].s
       ]_vars

C17_Witness ==
    /\ Expanded
    /\ Len(succ) = 2
    /\ succ[1].pushed
    /\ succ[2].pushed
    /\ succ[2].s.u # cur.u
    /\ Len(pq) >= 3

\* C18: when the move successor reaches its node v at a total_time strictly
\* below the recorded min_t[v], min_t[v] becomes that time, min_w[v][0] its
\* wait count, the successor is enqueued, and min_w[v][k] for k >= 1 is left
\* as it was; what is left there is INF, so that it prunes no later state
\* of v.
C18_FirstArrival ==
    [][ExpandTaken =>
        \A j \in 1..Len(succ') :
            LET g == succ'[j].s
                v == g.u
            IN  (succ'[j].kind = "move" /\ g.total_time < min_t[v]) =>
                   /\ min_t'[v] = g.total_time
                   /\ min_w'[v][0] = g.wait_time
                   /\ succ'[j].pushed
                   /\ pq'[Len(pq')] = g
                   /\ \A k \in 1..(C - 1) : /\ min_w'[v][k] = min_w[v][k]
                                            /\ min_w[v][k] = INF
       ]_vars

\* A move successor is the only entry of its node in the frontier, at the
\* time min_t records for the node: the node was reached for the first time.
C18_Witness ==
    /\ Expanded
    /\ \E j \in MoveGens :
          LET g == succ[j].s
          IN  /\ succ[j].pushed
              /\ g.u # cur.u
              /\ min_t[g.u] = g.total_time
              /\ min_w[g.u][0] = g.wait_time
              /\ Cardinality({i \in 1..Len(pq) : pq[i].u = g.u}) = 1

\* C19: min_t of a node is written at most once in a search: a finite min_t
\* never changes afterwards (the branch of line 107 is taken only on INF),
\* min_t[1] stays 0, and every finite entry of min_w sits at the offset of a
\* state counted from the one value min_t ever had for its node.
C19_MinTWrittenOnce ==
    [][(pc # "ret" /\ pc' # "ret") =>
        /\ \A v \in 1..n :
              /\ min_t[v] # INF => min_t'[v] = min_t[v]
              /\ min_t'[v] # min_t[v] =>
                    /\ ExpandTaken
                    /\ min_t'[v] = cur.total_time + 1
                    /\ \A k \in 0..(C - 1) : min_w[v][k] = INF
        /\ min_t'[1] = 0
       ]_vars

\* A node already reached is reached again, later, by a move.
C19_Witness ==
    /\ Expanded
    /\ \E j \in MoveGens :
          LET g == succ[j].s
          IN  /\ g.u # 1
              /\ min_t[g.u] < g.total_time
              /\ succ[j].pushed

\* The popped state is a target state that passes the pop-time checks.
TargetPasses ==
    /\ cur.u = n
    /\ InWindow(min_t, cur)
    /\ cur.wait_time <= min_w[cur.u][Slot(min_t, cur)]

\* C20: the answer is assigned at most once in a search, by the first target
\* state that passes the pop-time checks; when the loop has ended it is
\* (min_t[n], min_w[n][0]) whenever min_t[n] is finite, and it is either
\* (INF, INF) or a pair of two finite values.
C20_AnswerAssignedOnce ==
    [][(pc # "ret" /\ pc' # "ret") =>
        /\ ans # Sentinel => ans' = ans
        /\ ans' # ans =>
              /\ BodyTaken
              /\ TargetPasses
              /\ ans' = <<cur.total_time, cur.wait_time>>
        /\ (BodyTaken /\ TargetPasses) => ans' # Sentinel
        /\ (pc' = "loop" /\ pq' = <<>>) =>
              /\ min_t'[n] # INF => ans' = <<min_t'[n], min_w'[n][0]>>
              /\ ans' = Sentinel \/ (ans'[1] < INF /\ ans'[2] < INF)
       ]_vars

\* The loop has ended with an answer, and target states later than the one
\* that set it were popped.
C20_Witness ==
    /\ Finished
    /\ n > 1
    /\ ans = <<min_t[n], min_w[n][0]>>
    /\ ans[1] < INF
    /\ min_w[n][C - 1] < INF
    /\ cur.u = n
    /\ cur.total_time > ans[1]

SameNodeAndTime(a, b) == a.u = b.u /\ a.total_time = b.total_time

\* C21: in one search no (node, total_time, wait_time) triple is enqueued
\* twice and no two popped states of the same node and total_time pass the
\* pop-time checks (so none is expanded twice); when the loop has ended, the
\* enqueued states that passed are exactly those whose wait count is the
\* final min_w value of their node and time.
C21_ExpandedOnce ==
    [][(pc # "ret" /\ pc' # "ret") =>
        /\ ExpandTaken =>
              \A i \in 1..Len(succ') :
                  succ'[i].pushed =>
                      /\ succ'[i].s \notin hist.enq
                      /\ \A j \in 1..Len(succ') :
                            (j # i /\ succ'[j].pushed) => succ'[j].s # succ'[i].s
        /\ (BodyTaken /\ cur \in hist'.passed) =>
              \A s \in hist.passed : ~SameNodeAndTime(s, cur)
        /\ (pc' = "loop" /\ pq' = <<>>) =>
              \A s \in hist'.enq :
                  s \in hist'.passed <=>
                      s.wait_time = min_w'[s.u][Slot(min_t', s)]
       ]_vars

\* Two states of the same node and time were enqueued; one of them passed.
C21_Witness ==
    /\ Finished
    /\ \E a \in hist.enq : \E b \in hist.enq :
          /\ SameNodeAndTime(a, b)
          /\ a.wait_time < b.wait_time
          /\ a \in hist.passed
          /\ b \notin hist.passed

\* Every <<node, waits>> some walk of wait and move actions from node 1 at
\* time 0 is at after t steps.
RECURSIVE ReachAt(_, _)
ReachAt(es, t) ==
    IF t = 0 THEN {<<1, 0>>}
    ELSE LET R == ReachAt(es, t - 1)
         IN  {<<p[1], p[2] + 1>> : p \in R}
             \cup UNION {{<<v, p[2]>> : v \in Selected(es, p[1], t - 1)} : p \in R}

PairBefore(a, b) == a[1] < b[1] \/ (a[1] = b[1] /\ a[2] < b[2])

\* C22: every finite min_w[u][k] is the wait count of an actual walk that is
\* at node u at time min_t[u] + k; and an answer other than (INF, INF) is
\* never lexicographically below the true optimum.
C22_RecordedIsRealisable ==
    /\ pc # "ret" =>
          \A u \in 1..n : \A k \in 0..(C - 1) :
              min_w[u][k] # INF =>
                  /\ min_t[u] # INF
                  /\ <<u, min_w[u][k]>> \in ReachAt(edges, min_t[u] + k)
    /\ (Finished /\ ans # Sentinel) =>
          /\ <<n, ans[2]>> \in ReachAt(edges, ans[1])
          /\ ~PairBefore(ans, Optimum(edges, n))

C22_Witness ==
    /\ Finished
    /\ ans # Sentinel
    /\ ans[2] >= 1
    /\ \E u \in 1..n : u # n /\ min_w[u][C - 1] \in 1..(INF - 1)

\* The least time at which some walk is at node u, INF if none is.
RECURSIVE EarliestFrom(_, _, _, _)
EarliestFrom(es, nn, u, t) ==
    IF \E p \in ReachAt(es, t) : p[1] = u THEN t
    ELSE IF t >= Horizon(es, nn) THEN INF
    ELSE EarliestFrom(es, nn, u, t + 1)

Earliest(es, nn, u) == EarliestFrom(es, nn, u, 0)

DegreesWithinWindow == \A u \in 1..n : Len(Incident(edges, u)) <= C

\* C23: when every node has at most C incident edge entries and node n is
\* joined to node 1, the printed pair is not (INF, INF), its time is the
\* least time at which any walk is at node n, and min_t[u] is the least time
\* at which any walk is at u for every node u with min_t[u] at most that time.
C23_EarliestWhenDegreesSmall ==
    (Finished /\ Connected /\ DegreesWithinWindow) =>
        /\ ans # Sentinel
        /\ ans[1] = Earliest(edges, n, n)
        /\ \A u \in 1..n :
              min_t[u] <= ans[1] => min_t[u] = Earliest(edges, n, u)

C23_Witness ==
    /\ Finished
    /\ Connected
    /\ DegreesWithinWindow
    /\ n >= 3
    /\ \E u \in 1..n : Len(Incident(edges, u)) = C /\ u # n
    /\ ans # Sentinel
    /\ ans[2] >= 1

\* Every <<node, waits>> some walk is at after t steps, among the walks that
\* are at each of their nodes u, the last included, at a time strictly below
\* (the least time any walk is at u) + C.
RECURSIVE ReachInWindow(_, _, _)
ReachInWindow(es, nn, t) ==
    LET all == IF t = 0 THEN {<<1, 0>>}
               ELSE LET R == ReachInWindow(es, nn, t - 1)
                    IN  {<<p[1], p[2] + 1>> : p \in R}
                        \cup UNION {{<<v, p[2]>> : v \in Selected(es, p[1], t - 1)}
                                    : p \in R}
    IN  {p \in all : t < Earliest(es, nn, p[1]) + C}

\* Some lexicographically optimal walk stays inside the window.
OptimalWalkInWindow ==
    LET opt == Optimum(edges, n)
    IN  /\ opt # Sentinel
        /\ <<n, opt[2]>> \in ReachInWindow(edges, n, opt[1])

\* C24: when some lexicographically optimal walk from node 1 to node n is at
\* each of its nodes u at a time strictly below (earliest arrival at u) + C,
\* the printed pair is the true lexicographic optimum: the answer differs
\* from the optimum only when every optimal walk leaves the window.
C24_OptimalWhenInWindow ==
    (Finished /\ OptimalWalkInWindow) => ans = Optimum(edges, n)

\* An optimum that needs a wait and a return to a node already visited.
C24_Witness ==
    /\ Finished
    /\ OptimalWalkInWindow
    /\ ans = Optimum(edges, n)
    /\ ans[2] >= 1
    /\ ans[1] >= n

\* C25: when the search ends with an answer of time T, no state it enqueued
\* has a total_time above T + 1; and, answer or not, every state enqueued
\* for a node v has a total_time of at most min_t[v] + C - 1.
C25_EnqueuedTimesBounded ==
    /\ (Finished /\ ans # Sentinel) =>
          \A s \in hist.enq : s.total_time <= ans[1] + 1
    /\ pc # "ret" =>
          \A s \in hist.enq : /\ min_t[s.u] # INF
                              /\ s.total_time <= min_t[s.u] + C - 1

C25_Witness ==
    /\ Finished
    /\ ans # Sentinel
    /\ \E s \in hist.enq : s.total_time = ans[1] + 1
    /\ \E s \in hist.enq : s.u # n /\ s.total_time = min_t[s.u] + C - 1
    /\ \E u \in 1..n : min_t[u] # INF /\ min_t[u] + C - 1 > ans[1] + 1

\* ------------------------------------------------------------------------
\* src/Evidence/evidence day 1/test2.cpp: solve() as the state machine
\*     for --SwFor--> body --SwBody--> for ... --SwFor--> print --SwOutput--> done
\* over the record sw of its locals (vectors indexed from 0 as in the source).

\* The variables of 2122_D.cpp while another program is the one run.
SolveIdle ==
    /\ n = 0
    /\ edges = <<>>
    /\ adj = <<>>
    /\ deg = <<>>
    /\ min_t = <<>>
    /\ min_w = <<>>
    /\ pq = <<>>
    /\ ans = <<>>
    /\ cur = NoState
    /\ pc = "ret"
    /\ out = <<>>
    /\ tleft = 0
    /\ ran = 0
    /\ tie = "any"
    /\ succ = <<>>
    /\ logging = FALSE
    /\ trace = <<>>
    /\ hist = Hist({}, {})

solveVars == <<n, edges, adj, deg, min_t, min_w, pq, ans, cur, pc, out, tleft,
               ran, tie, succ, logging, trace, hist>>

RECURSIVE SumRange(_, _, _)
SumRange(a, lo, hi) == IF lo > hi THEN 0 ELSE a[lo] + SumRange(a, lo + 1, hi)

\* std::greater on pair<long long, int>.
PairGreater(p, q) == p[1] > q[1] \/ (p[1] = q[1] /\ p[2] > q[2])

\* pq.top() of the min-queue of line 48: equal entries are the same pair.
SwapTop(q) ==
    SetMin({i \in 1..Len(q) : \A j \in 1..Len(q) : ~PairGreater(q[i], q[j])})

\* Lines 62-64: entries of an inactive index are dropped from the top.
RECURSIVE SkipInactive(_, _)
SkipInactive(q, active) ==
    IF q # <<>> /\ ~active[q[SwapTop(q)][2]]
    THEN SkipInactive(PqPop(q, SwapTop(q)), active)
    ELSE q

\* Variant: the boundary is marked active but not pushed.
NewBoundaryNoPush(s, p) ==
    IF s.is_in_x_set[p] # s.is_in_x_set[p + 1]
    THEN [s EXCEPT !.active[p] = TRUE]
    ELSE [s EXCEPT !.active[p] = FALSE]

\* Lines 86-96 with p = i - 1 and lines 99-109 with p = j: the boundary
\* between positions p and p + 1 after the swap.
NewBoundary(s, p) ==
    IF s.is_in_x_set[p] # s.is_in_x_set[p + 1]
    THEN [s EXCEPT !.pq = Append(@, <<s.a[p + 1] - s.a[p], p>>),
                   !.active[p] = TRUE]
    ELSE [s EXCEPT !.active[p] = FALSE]

\* Variant: the used boundary stays active (line 79 left out).
TakeTopKeepsActive(s) ==
    LET top == s.pq[SwapTop(s.pq)]
        i == top[2]
    IN  [s EXCEPT !.pq = PqPop(@, SwapTop(s.pq)),
                  !.current_total_stay = @ - 2 * top[1],
                  !.ans[s.k] = s.current_total_stay - 2 * top[1],
                  !.is_in_x_set[i] = s.is_in_x_set[i + 1],
                  !.is_in_x_set[i + 1] = s.is_in_x_set[i],
                  !.used = [i |-> i, active |-> s.active[i]],
                  !.assigned = @ \cup {s.k}]

\* Lines 68-80: the top entry is taken and its two positions change sets.
TakeTop(s) ==
    LET top == s.pq[SwapTop(s.pq)]
        i == top[2]
    IN  [s EXCEPT !.pq = PqPop(@, SwapTop(s.pq)),
                  !.current_total_stay = @ - 2 * top[1],
                  !.ans[s.k] = s.current_total_stay - 2 * top[1],
                  !.active[i] = FALSE,
                  !.is_in_x_set[i] = s.is_in_x_set[i + 1],
                  !.is_in_x_set[i + 1] = s.is_in_x_set[i],
                  !.used = [i |-> i, active |-> s.active[i]],
                  !.assigned = @ \cup {s.k}]

\* Lines 68-109.
SwapStep(s) ==
    LET s1 == TakeTop(s)
        i == s1.used.i
        j == i + 1
        s2 == IF i > 0 THEN NewBoundary(s1, i - 1) ELSE s1
    IN  IF j < 2 * s.n - 1 THEN NewBoundary(s2, j) ELSE s2

\* Lines 10-57 for an input of n >= 1 (n = 0 returns at line 18).
SwapStart(nn, a) ==
    [n |-> nn,
     a |-> a,
     ans |-> [k \in 0..nn |->
                 IF k = nn THEN SumRange(a, nn, 2 * nn - 1) - SumRange(a, 0, nn - 1)
                 ELSE 0],
     current_total_stay |-> SumRange(a, nn, 2 * nn - 1) - SumRange(a, 0, nn - 1),
     is_in_x_set |-> [i \in 0..(2 * nn - 1) |-> i >= nn],
     pq |-> << <<a[nn] - a[nn - 1], nn - 1>> >>,
     active |-> [i \in 0..(2 * nn - 2) |-> i = nn - 1],
     k |-> nn - 1,
     pc |-> "for",
     out |-> <<>>,
     used |-> [i |-> -1, active |-> TRUE],
     assigned |-> {nn},
     broke |-> FALSE,
     skipped |-> 0]

InitSwap ==
    /\ SolveIdle
    /\ mh = NotRun
    /\ \E nn \in 1..SwapN : \E a \in [0..(2 * nn - 1) -> 0..SwapA] :
          sw = SwapStart(nn, a)

\* Line 60: the loop condition.
SwFor ==
    /\ sw.pc = "for"
    /\ sw' = [sw EXCEPT !.pc = IF sw.k >= 1 THEN "body" ELSE "print"]
    /\ UNCHANGED <<solveVars, mh>>

\* Lines 62-109: one iteration.
SwBody ==
    /\ sw.pc = "body"
    /\ LET q == SkipInactive(sw.pq, sw.active)
           s == [sw EXCEPT !.pq = q, !.skipped = @ + (Len(sw.pq) - Len(q))]
       IN  sw' = IF q = <<>>
                 THEN [s EXCEPT !.broke = TRUE, !.pc = "print"]
                 ELSE [SwapStep(s) EXCEPT !.k = @ - 1, !.pc = "for"]
    /\ UNCHANGED <<solveVars, mh>>

\* Lines 113-116.
SwOutput ==
    /\ sw.pc = "print"
    /\ sw' = [sw EXCEPT !.out = [k \in 1..sw.n |-> sw.ans[k]], !.pc = "done"]
    /\ UNCHANGED <<solveVars, mh>>

NextSwap == SwFor \/ SwBody \/ SwOutput

SpecSwap == InitSwap /\ [][NextSwap]_vars

\* test2.cpp is at the start of an iteration of the k-loop.
IterationStart == sw.pc = "body"

Boundaries == 0..(2 * sw.n - 2)

\* C26: at the start of every iteration of the k-loop, for every active
\* index i the queue holds an entry <<a[i+1] - a[i], i>>; and the entry a
\* swap used had an active index when it was taken from the queue.
C26_ActiveInQueue ==
    /\ IterationStart =>
          \A i \in Boundaries :
              sw.active[i] => <<sw.a[i + 1] - sw.a[i], i>> \in Range(sw.pq)
    /\ sw.pc # "none" => sw.used.active

\* An iteration starts with two active boundaries, after a swap.
C26_Witness ==
    /\ IterationStart
    /\ sw.used.i >= 0
    /\ Cardinality({i \in Boundaries : sw.active[i]}) >= 2
    /\ \E i \in Boundaries : sw.active[i] /\ sw.a[i + 1] # sw.a[i]

\* C27: at the start of every iteration of the k-loop, active[i] holds
\* exactly when position i is in the Entry set and position i + 1 in the Exit
\* set, and some boundary is active; the exit of line 66 is never taken;
\* when the answers are printed every ans[k], k in 1..n, was assigned; and
\* each set always holds n positions.
C27_ActiveIffBoundary ==
    sw.pc # "none" =>
        /\ IterationStart =>
              /\ \A i \in Boundaries :
                    sw.active[i] <=> (~sw.is_in_x_set[i] /\ sw.is_in_x_set[i + 1])
              /\ \E i \in Boundaries : sw.active[i]
        /\ ~sw.broke
        /\ sw.pc \in {"print", "done"} => sw.assigned = 1..sw.n
        /\ Cardinality({i \in 0..(2 * sw.n - 1) : sw.is_in_x_set[i]}) = sw.n

\* The last iteration of the largest input starts, the sets interleaved.
C27_Witness ==
    /\ IterationStart
    /\ sw.k = 1
    /\ sw.n >= 3
    /\ \E i \in Boundaries : i + 2 \in Boundaries
                             /\ sw.active[i] /\ sw.active[i + 2]

\* ------------------------------------------------------------------------
\* src/Evidence/evidence day 1/2107_F2.cpp: solve() as the state machine
\*     insert --MhInsert--> balance --MhBalance--> cost --MhCost--> insert ...
\*     insert --MhReturn--> done
\* over the record mh of its locals.  A heap is held as the sequence of its
\* values; top() is its greatest (small) or least (large) value.

\* small.top(): the max-heap of line 15.
MaxTop(h) == CHOOSE x \in Range(h) : \A y \in Range(h) : x >= y

\* large.top(): the min-heap of line 16.
MinTop(h) == CHOOSE x \in Range(h) : \A y \in Range(h) : x <= y

\* pop() of a heap whose top() is v: one occurrence of v leaves.
PopTop(h, v) == PqPop(h, SetMin({i \in 1..Len(h) : h[i] = v}))

\* Variant: the index term left out of val.
HeapValPlain(a, i) == a[i]

\* Line 22.
HeapVal(a, i) == a[i] + (i + 1)

\* Lines 22-31.
InsertVal(s) ==
    LET val == HeapVal(s.a, s.i)
    IN  IF s.small = <<>> \/ val <= MaxTop(s.small)
        THEN [s EXCEPT !.small = Append(@, val), !.small_sum = @ + val]
        ELSE [s EXCEPT !.large = Append(@, val), !.large_sum = @ + val]

\* Variant: only small is ever relieved (lines 39-44 left out).
BalanceOneWay(s) ==
    IF Len(s.small) > Len(s.large) + 1
    THEN LET v == MaxTop(s.small)
         IN  [s EXCEPT !.large = Append(@, v),
                       !.large_sum = @ + v,
                       !.small_sum = @ - v,
                       !.small = PopTop(@, v)]
    ELSE s

\* Lines 34-44.
Balance(s) ==
    IF Len(s.small) > Len(s.large) + 1
    THEN LET v == MaxTop(s.small)
         IN  [s EXCEPT !.large = Append(@, v),
                       !.large_sum = @ + v,
                       !.small_sum = @ - v,
                       !.small = PopTop(@, v)]
    ELSE IF Len(s.large) > Len(s.small)
    THEN LET v == MinTop(s.large)
         IN  [s EXCEPT !.small = Append(@, v),
                       !.small_sum = @ + v,
                       !.large_sum = @ - v,
                       !.large = PopTop(@, v)]
    ELSE s

\* Lines 47-49.
Cost(s, median) ==
    (median * Len(s.small) - s.small_sum) + (s.large_sum - median * Len(s.large))

\* Lines 8-19.
HeapStart(nn, a) ==
    [n |-> nn, a |-> a, i |-> 0,
     small |-> <<>>, large |-> <<>>, small_sum |-> 0, large_sum |-> 0,
     out |-> <<>>, pc |-> "insert", ub |-> FALSE]

InitHeaps ==
    /\ SolveIdle
    /\ sw = NotRun
    /\ \E nn \in 0..HeapN : \E a \in [0..(nn - 1) -> 0..HeapA] :
          mh = HeapStart(nn, a)

\* Lines 21-31: the loop condition holds and a[i] + (i + 1) is inserted.
MhInsert ==
    /\ mh.pc = "insert"
    /\ mh.i < mh.n
    /\ mh' = [InsertVal(mh) EXCEPT !.pc = "balance"]
    /\ UNCHANGED <<solveVars, sw>>

\* Lines 34-44.
MhBalance ==
    /\ mh.pc = "balance"
    /\ mh' = [Balance(mh) EXCEPT !.pc = "cost"]
    /\ UNCHANGED <<solveVars, sw>>

\* Lines 46-61: the cost of the prefix is printed.  top() of an empty small
\* is undefined: any value may be read.
MhCost ==
    /\ mh.pc = "cost"
    /\ \E median \in (IF mh.small # <<>> THEN {MaxTop(mh.small)}
                      ELSE 0..(HeapA + HeapN)) :
          mh' = [mh EXCEPT !.out = Append(@, Cost(mh, median)),
                           !.ub = @ \/ mh.small = <<>>,
                           !.i = @ + 1,
                           !.pc = "insert"]
    /\ UNCHANGED <<solveVars, sw>>

\* Lines 21, 63: the loop has ended.
MhReturn ==
    /\ mh.pc = "insert"
    /\ mh.i >= mh.n
    /\ mh' = [mh EXCEPT !.pc = "done"]
    /\ UNCHANGED <<solveVars, sw>>

NextHeaps == MhInsert \/ MhBalance \/ MhCost \/ MhReturn

SpecHeaps == InitHeaps /\ [][NextHeaps]_vars

RECURSIVE SeqSum(_)
SeqSum(h) == IF h = <<>> THEN 0 ELSE Head(h) + SeqSum(Tail(h))

\* An element was inserted and the heaps were rebalanced.
Rebalanced == mh.pc = "cost" \/ (mh.pc \in {"insert", "done"} /\ mh.i > 0)

\* C28: after each insertion and rebalancing every value of small is at most
\* every value of large, small has as many values as large or one more (and
\* so is not empty when its top is read), and small_sum and large_sum are
\* the sums of the values the heaps hold.
C28_HeapsBalanced ==
    Rebalanced =>
        /\ \A x \in Range(mh.small) : \A y \in Range(mh.large) : x <= y
        /\ Len(mh.small) - Len(mh.large) \in {0, 1}
        /\ mh.small # <<>>
        /\ ~mh.ub
        /\ mh.small_sum = SeqSum(mh.small)
        /\ mh.large_sum = SeqSum(mh.large)

\* Four values were inserted, the second one into small, and each heap
\* holds two of them.
C28_Witness ==
    /\ mh.pc = "cost"
    /\ Len(mh.small) = 2
    /\ Len(mh.large) = 2
    /\ mh.small[2] > mh.small[1]
    /\ \E k \in 1..2 : mh.large[k] < HeapVal(mh.a, mh.i)
    /\ mh.a[1] < mh.a[0] - 1

\* The values v_0 .. v_(k-1) of the prefix of length k, v_j = a[j] + (j + 1).
PrefixVals(a, k) == [j \in 1..k |-> a[j - 1] + j]

\* The lower median of the values of vs: the ((k + 1) \div 2)-th smallest.
LowerMedian(vs) ==
    LET half == (Len(vs) + 1) \div 2
    IN  CHOOSE m \in Range(vs) :
            /\ Cardinality({j \in 1..Len(vs) : vs[j] < m}) < half
            /\ Cardinality({j \in 1..Len(vs) : vs[j] <= m}) >= half

Abs(x) == IF x < 0 THEN -x ELSE x

RECURSIVE SumAbsDev(_, _)
SumAbsDev(vs, m) ==
    IF vs = <<>> THEN 0 ELSE Abs(Head(vs) - m) + SumAbsDev(Tail(vs), m)

\* C29: for every prefix length i + 1 the printed cost is the sum over
\* j <= i of |v_j - m|, v_j = a[j] + (j + 1), m the lower median of
\* v_0 .. v_i; and m is the top of small when the cost is computed.
C29_CostIsAbsDeviation ==
    mh.pc # "none" =>
        /\ \A k \in 1..Len(mh.out) :
              mh.out[k] = SumAbsDev(PrefixVals(mh.a, k),
                                    LowerMedian(PrefixVals(mh.a, k)))
        /\ mh.pc = "cost" =>
              MaxTop(mh.small) = LowerMedian(PrefixVals(mh.a, mh.i + 1))

\* All the costs of an input whose values are not in increasing order.
C29_Witness ==
    /\ mh.pc = "done"
    /\ mh.n = HeapN
    /\ mh.out[HeapN] > mh.out[HeapN - 1]
    /\ mh.out[2] > 0
    /\ \E j \in 1..(HeapN - 1) : mh.a[j] + 1 < mh.a[j - 1]

====
